---- MODULE Spec2Model ----
(***************************************************************************)
(* Model of src/code.py: the FASTA page (construct_tree_from_fasta), the   *)
(* library pipeline it calls (DistanceMatrix, DistanceTreeConstructor.nj,  *)
(* Phylo.write, Phylo.read) and the Pyvis display (visualize_phylo_tree).  *)
(*                                                                         *)
(* Conventions.                                                            *)
(*  - Python lists are TLA+ sequences, so every index is the Python index  *)
(*    plus one.                                                            *)
(*  - A Python float is modelled by the exact rational <<num, den>> in     *)
(*    lowest terms with den > 0; <<0, 0>> stands for None.  Only the       *)
(*    "%1.5f" conversion of Phylo.write rounds.                            *)
(*  - A Newick string is the sequence of its tokens; a number token holds  *)
(*    the five printed decimals as an integer count of 1/100000.           *)
(*  - Three specifications share the variables:                            *)
(*      Spec     one run of construct_tree_from_fasta on an uploaded file  *)
(*      SpecNJ   lines 250-260 and 139 applied to a DistanceMatrix that    *)
(*               the constructor of line 248 accepts                       *)
(*      SpecViz  two sessions inside visualize_phylo_tree at once          *)
(***************************************************************************)
EXTENDS Integers, Sequences, FiniteSets, TLC

VARIABLES
    pc,          \* position of the run inside construct_tree_from_fasta
    records,     \* list(SeqIO.parse(...)): sequence of [id, seq]
    names,       \* the list of line 237
    matrix,      \* the n x n list of lists of line 239
    i, j,        \* loop indices of lines 241-242 (next pair to score)
    scoreCalls,  \* number of aligner.score calls made so far
    ui,          \* what Streamlit was asked to show, in order
    dmNames,     \* dm.names
    dmMatrix,    \* dm.matrix, lower triangular, row r has r entries
    clades,      \* the list `clades` of nj
    min_i, min_j,\* the indices nj selected in its last merge
    scan,        \* the values `temp` of the last merge, in scan order
    inner_count, \* nj's inner_count
    tree,        \* root clade of the tree returned by nj
    newick,      \* newick_tree, as tokens
    parsed,      \* root clade Phylo.read gives back for newick
    PYVIS_AVAILABLE,
    vpc,         \* per session: position inside visualize_phylo_tree
    arg,         \* per session: its newick_str
    file,        \* content of phylogenetic_tree.html
    display      \* per session: what components.html / plotly showed

vars == <<pc, records, names, matrix, i, j, scoreCalls, ui, dmNames, dmMatrix,
          clades, min_i, min_j, scan, inner_count, tree, newick, parsed,
          PYVIS_AVAILABLE, vpc, arg, file, display>>

handlerVars == <<pc, records, names, matrix, i, j, scoreCalls, ui>>
njVars == <<dmNames, dmMatrix, clades, min_i, min_j, scan, inner_count,
            tree, newick, parsed>>
vizVars == <<PYVIS_AVAILABLE, vpc, arg, file, display>>

(***************************************************************************)
(* Bounds of the model.                                                    *)
(***************************************************************************)
MaxRecords == 3
MaxTaxa == 4

\* record ids and residue strings an uploaded file is drawn from
Names == {"A", "B", "C"}
SeqPool == {<<>>, <<"a">>, <<"a", "c">>, <<"c", "a", "a">>}

(***************************************************************************)
(* Float arithmetic, as exact rationals.                                   *)
(***************************************************************************)
None == <<0, 0>>
Zero == <<0, 1>>

Abs(x) == IF x < 0 THEN -x ELSE x

RECURSIVE GCD(_, _)
GCD(a, b) == IF b = 0 THEN a ELSE GCD(b, a % b)

Rat(n, d) ==
    LET g == GCD(Abs(n), Abs(d))
        s == IF d < 0 THEN -1 ELSE 1
    IN  <<(s * n) \div g, (s * d) \div g>>

RAdd(x, y) == Rat(x[1] * y[2] + y[1] * x[2], x[2] * y[2])
RSub(x, y) == Rat(x[1] * y[2] - y[1] * x[2], x[2] * y[2])
RDiv(x, k) == Rat(x[1], x[2] * k)
RLess(x, y) == x[1] * y[2] < y[1] * x[2]

RECURSIVE RSum(_)
RSum(s) == IF s = <<>> THEN Zero ELSE RAdd(s[1], RSum(Tail(s)))

Max(a, b) == IF a >= b THEN a ELSE b
Min(a, b) == IF a <= b THEN a ELSE b

(***************************************************************************)
(* aligner.score: PairwiseAligner() in mode 'global' with the default      *)
(* scores of biopython 1.81 (match 1, mismatch 0, every gap score 0) is    *)
(* the length of a longest common subsequence.                             *)
(***************************************************************************)
RECURSIVE LCS(_, _)
LCS(a, b) ==
    IF a = <<>> \/ b = <<>> THEN 0
    ELSE IF a[1] = b[1] THEN 1 + LCS(Tail(a), Tail(b))
    ELSE Max(LCS(Tail(a), b), LCS(a, Tail(b)))

AlignerScore(a, b) == LCS(a, b)

\* distance = 1 - (score / max_len)
Distance(score, max_len) == RSub(<<1, 1>>, Rat(score, max_len))

(***************************************************************************)
(* Streamlit output.                                                       *)
(***************************************************************************)
Warning(text) == [kind |-> "warning", text |-> text, code |-> <<>>]
Error(text) == [kind |-> "error", text |-> text, code |-> <<>>]
Code(toks) == [kind |-> "code", text |-> "", code |-> toks]

Emitted == \E k \in 1..Len(ui) : ui[k].kind = "code"
Failed == \E k \in 1..Len(ui) : ui[k].kind \in {"warning", "error"}

(***************************************************************************)
(* construct_tree_from_fasta, lines 226-250 and 262-263.                   *)
(***************************************************************************)
n == Len(records)

HasDuplicates(ids) ==
    \E a, b \in 1..Len(ids) : a # b /\ ids[a] = ids[b]

RecordIds == [k \in 1..n |-> records[k].id]

\* matrix = [[0.0]*n for _ in range(n)]
ZeroMatrix(m) == [r \in 1..m |-> [c \in 1..m |-> Zero]]

\* CheckRecords with the test of line 229 off by one (len(records) < 1)
CheckRecordsOffByOne ==
    /\ pc = "start"
    /\ IF n < 1
       THEN /\ ui' = Append(ui, Warning("at least 2 sequences"))
            /\ pc' = "done"
            /\ UNCHANGED <<names, matrix, i, j>>
       ELSE /\ names' = RecordIds
            /\ matrix' = ZeroMatrix(n)
            /\ i' = 2
            /\ j' = 1
            /\ pc' = IF 2 <= n THEN "loop" ELSE "dm"
            /\ UNCHANGED ui
    /\ UNCHANGED <<records, scoreCalls>>
    /\ UNCHANGED <<njVars, vizVars>>

\* lines 228-239: parse, the length test, the aligner, names and the zero
\* matrix
CheckRecords ==
    /\ pc = "start"
    /\ IF n < 2
       THEN /\ ui' = Append(ui, Warning("at least 2 sequences"))
            /\ pc' = "done"
            /\ UNCHANGED <<names, matrix, i, j>>
       ELSE /\ names' = RecordIds
            /\ matrix' = ZeroMatrix(n)
            /\ i' = 2
            /\ j' = 1
            /\ pc' = IF 2 <= n THEN "loop" ELSE "dm"
            /\ UNCHANGED ui
    /\ UNCHANGED <<records, scoreCalls>>
    /\ UNCHANGED <<njVars, vizVars>>

\* SetPair writing matrix[i][j] only
SetPairOneSided(m, r, c, d) == [m EXCEPT ![r] = [@ EXCEPT ![c] = d]]

\* matrix[i][j] = matrix[j][i] = distance
SetPair(m, r, c, d) ==
    [m EXCEPT ![r] = [@ EXCEPT ![c] = d], ![c] = [@ EXCEPT ![r] = d]]

\* lines 243-246, one pass of the inner loop body, then the loop headers.
\* aligner.score raises ValueError("sequence has zero length") for an
\* empty sequence; the handler of line 262 reports it.
ScorePair ==
    /\ pc = "loop"
    /\ scoreCalls' = scoreCalls + 1
    /\ LET a == records[i].seq
           b == records[j].seq
       IN  IF a = <<>> \/ b = <<>>
           THEN /\ ui' = Append(ui, Error("sequence has zero length"))
                /\ pc' = "done"
                /\ UNCHANGED <<matrix, i, j>>
           ELSE /\ matrix' = SetPair(matrix, i, j,
                        Distance(AlignerScore(a, b), Max(Len(a), Len(b))))
                /\ IF j + 1 < i
                   THEN /\ j' = j + 1
                        /\ UNCHANGED <<i, pc>>
                   ELSE /\ i' = i + 1
                        /\ j' = 1
                        /\ pc' = IF i + 1 <= n THEN "loop" ELSE "dm"
                /\ UNCHANGED ui
    /\ UNCHANGED <<records, names>>
    /\ UNCHANGED <<njVars, vizVars>>

\* _Matrix.__init__: the rows must have lengths 1, 2, ..., len(names)
IsLowerTriangle(m) == \A r \in 1..Len(m) : Len(m[r]) = r

\* DistanceMatrix.__init__ ends with _set_zero_diagonal()
SetZeroDiagonal(m) == [r \in 1..Len(m) |-> [m[r] EXCEPT ![r] = Zero]]

\* ConstructDM without the test for duplicate names
ConstructDMNoNameCheck ==
    /\ pc = "dm"
    /\ IF ~IsLowerTriangle(matrix)
       THEN /\ ui' = Append(ui, Error("'matrix' should be in lower triangle format"))
            /\ pc' = "done"
            /\ UNCHANGED <<dmNames, dmMatrix>>
       ELSE /\ dmNames' = names
            /\ dmMatrix' = SetZeroDiagonal(matrix)
            /\ pc' = "nj"
            /\ UNCHANGED ui
    /\ UNCHANGED <<records, names, matrix, i, j, scoreCalls>>
    /\ UNCHANGED <<clades, min_i, min_j, scan, inner_count, tree, newick, parsed>>
    /\ UNCHANGED vizVars

\* ConstructDM with the matrix shown to the user before it is validated
ConstructDMEmitFirst ==
    /\ pc = "dm"
    /\ ui' = Append(Append(ui, Code(<<>>)),
                    Error(IF HasDuplicates(names)
                          THEN "Duplicate names found"
                          ELSE "'matrix' should be in lower triangle format"))
    /\ pc' = "done"
    /\ UNCHANGED <<dmNames, dmMatrix>>
    /\ UNCHANGED <<records, names, matrix, i, j, scoreCalls>>
    /\ UNCHANGED <<clades, min_i, min_j, scan, inner_count, tree, newick, parsed>>
    /\ UNCHANGED vizVars

\* line 248, dm = DistanceMatrix(names, matrix): ValueError for duplicate
\* names, TypeError unless the matrix is in lower triangle format
ConstructDM ==
    /\ pc = "dm"
    /\ IF HasDuplicates(names)
       THEN /\ ui' = Append(ui, Error("Duplicate names found"))
            /\ pc' = "done"
            /\ UNCHANGED <<dmNames, dmMatrix>>
       ELSE IF ~IsLowerTriangle(matrix)
       THEN /\ ui' = Append(ui, Error("'matrix' should be in lower triangle format"))
            /\ pc' = "done"
            /\ UNCHANGED <<dmNames, dmMatrix>>
       ELSE /\ dmNames' = names
            /\ dmMatrix' = SetZeroDiagonal(matrix)
            /\ pc' = "nj"
            /\ UNCHANGED ui
    /\ UNCHANGED <<records, names, matrix, i, j, scoreCalls>>
    /\ UNCHANGED <<clades, min_i, min_j, scan, inner_count, tree, newick, parsed>>
    /\ UNCHANGED vizVars

(***************************************************************************)
(* Clades (Bio.Phylo.BaseTree.Clade): name, branch_length, clades.         *)
(***************************************************************************)
Clade(branch_length, name, kids) ==
    [name |-> name, branch_length |-> branch_length, clades |-> kids]

\* no tree yet (Python's None where a tree is expected)
NoTree == Clade(None, "", <<>>)

RECURSIVE LeafNames(_), LeafNamesFrom(_, _)
LeafNames(t) ==
    IF t.clades = <<>> THEN <<t.name>> ELSE LeafNamesFrom(t.clades, 1)
LeafNamesFrom(kids, k) ==
    IF k > Len(kids) THEN <<>>
    ELSE LeafNames(kids[k]) \o LeafNamesFrom(kids, k + 1)

RECURSIVE InternalCount(_), InternalCountFrom(_, _)
InternalCount(t) ==
    IF t.clades = <<>> THEN 0 ELSE 1 + InternalCountFrom(t.clades, 1)
InternalCountFrom(kids, k) ==
    IF k > Len(kids) THEN 0
    ELSE InternalCount(kids[k]) + InternalCountFrom(kids, k + 1)

\* the branch lengths of the edges of t: every clade below the root
RECURSIVE EdgeLengths(_), EdgeLengthsFrom(_, _)
EdgeLengths(t) == EdgeLengthsFrom(t.clades, 1)
EdgeLengthsFrom(kids, k) ==
    IF k > Len(kids) THEN <<>>
    ELSE <<kids[k].branch_length>> \o EdgeLengths(kids[k])
             \o EdgeLengthsFrom(kids, k + 1)

(***************************************************************************)
(* DistanceMatrix: dm[a, b], dm[a, b] = v, del dm[a].                      *)
(***************************************************************************)
DmGet(m, a, b) == m[Max(a, b)][Min(a, b)]

DmSet(m, a, b, v) == [m EXCEPT ![Max(a, b)] = [@ EXCEPT ![Min(a, b)] = v]]

DelAt(s, a) == SubSeq(s, 1, a - 1) \o SubSeq(s, a + 1, Len(s))

DmDel(m, a) ==
    DelAt([r \in 1..Len(m) |-> IF r > a THEN DelAt(m[r], a) ELSE m[r]], a)

(***************************************************************************)
(* DistanceTreeConstructor.nj, called at line 250.                         *)
(***************************************************************************)
\* node_dist[a] = sum(dm[a, b] for b) / (len(dm) - 2), for every a
NodeDist(m) ==
    [a \in 1..Len(m) |->
        RDiv(RSum([b \in 1..Len(m) |-> DmGet(m, a, b)]), Len(m) - 2)]

\* temp = dm[a, b] - node_dist[a] - node_dist[b]
Temp(m, node_dist, a, b) ==
    RSub(RSub(DmGet(m, a, b), node_dist[a]), node_dist[b])

\* for a in range(1, len(dm)): for b in range(0, a)
RECURSIVE ScanFrom(_, _, _, _)
ScanFrom(m, node_dist, a, b) ==
    IF a > Len(m) THEN <<>>
    ELSE IF b >= a THEN ScanFrom(m, node_dist, a + 1, 1)
    ELSE <<[i |-> a, j |-> b, temp |-> Temp(m, node_dist, a, b)]>>
             \o ScanFrom(m, node_dist, a, b + 1)

Scan(m) == ScanFrom(m, NodeDist(m), 2, 1)

\* Better with >= in place of >
BetterOrEqual(min_dist, temp) == ~RLess(min_dist, temp)

\* if min_dist > temp: min_dist, min_i, min_j = temp, a, b
Better(min_dist, temp) == RLess(temp, min_dist)

RECURSIVE FindMin(_, _, _)
FindMin(s, k, best) ==
    IF k > Len(s) THEN best
    ELSE IF Better(best.temp, s[k].temp) THEN FindMin(s, k + 1, s[k])
    ELSE FindMin(s, k + 1, best)

\* min_dist = dm[1, 0] - node_dist[1] - node_dist[0]; min_i = 0; min_j = 1;
\* then the scan
MinPair(s) == FindMin(s, 1, [i |-> 1, j |-> 2, temp |-> s[1].temp])

InnerName(k) == "Inner" \o ToString(k)

\* dm[min_j, k] = (dm[min_i, k] + dm[min_j, k] - dm[min_i, min_j]) / 2.0
RECURSIVE Rebuild(_, _, _, _, _)
Rebuild(m, old, mi, mj, k) ==
    IF k > Len(m) THEN m
    ELSE IF k = mi \/ k = mj THEN Rebuild(m, old, mi, mj, k + 1)
    ELSE Rebuild(DmSet(m, mj, k,
                     RDiv(RSub(RAdd(DmGet(old, mi, k), DmGet(old, mj, k)),
                               DmGet(old, mi, mj)), 2)),
                 old, mi, mj, k + 1)

\* the copy of dm, the terminal clades, and the case len(dm) == 2
NJStart ==
    /\ pc = "nj"
    /\ IF Len(dmNames) = 2
       THEN LET d == DmGet(dmMatrix, 2, 1)
                b1 == RDiv(d, 2)
                clade1 == Clade(b1, dmNames[2], <<>>)
                clade2 == Clade(RSub(d, b1), dmNames[1], <<>>)
            IN  /\ min_i' = 2
                /\ min_j' = 1
                /\ tree' = Clade(None, "Inner", <<clade1, clade2>>)
                /\ clades' = <<tree'>>
                /\ pc' = "write"
       ELSE /\ clades' = [k \in 1..Len(dmNames) |-> Clade(None, dmNames[k], <<>>)]
            /\ min_i' = 1
            /\ min_j' = 1
            /\ pc' = "njloop"
            /\ UNCHANGED tree
    /\ UNCHANGED <<dmNames, dmMatrix, scan, inner_count, newick, parsed>>
    /\ UNCHANGED <<records, names, matrix, i, j, scoreCalls, ui>>
    /\ UNCHANGED vizVars

\* clade1.branch_length = (dm[min_i, min_j] + node_dist[min_i] - node_dist[min_j]) / 2.0
BranchLength1(m, node_dist, mi, mj) ==
    RDiv(RSub(RAdd(DmGet(m, mi, mj), node_dist[mi]), node_dist[mj]), 2)

\* clade2.branch_length = dm[min_i, min_j] - clade1.branch_length
BranchLength2(m, node_dist, mi, mj) ==
    RSub(DmGet(m, mi, mj), BranchLength1(m, node_dist, mi, mj))

\* JoinClades without `del clades[min_i]`
JoinCladesKeep(cs, mi, mj, inner) == [cs EXCEPT ![mj] = inner]

\* clades[min_j] = inner_clade; del clades[min_i]
JoinClades(cs, mi, mj, inner) == DelAt([cs EXCEPT ![mj] = inner], mi)

\* one pass of `while len(dm) > 2`
NJMerge ==
    /\ pc = "njloop"
    /\ Len(dmNames) > 2
    /\ \E node_dist \in {NodeDist(dmMatrix)} :
       \E temps \in {ScanFrom(dmMatrix, node_dist, 2, 1)} :
       \E best \in {MinPair(temps)} :
         LET m == dmMatrix
             mi == best.i
             mj == best.j
             clade1 == [clades[mi] EXCEPT
                          !.branch_length = BranchLength1(m, node_dist, mi, mj)]
             clade2 == [clades[mj] EXCEPT
                          !.branch_length = BranchLength2(m, node_dist, mi, mj)]
             inner == Clade(None, InnerName(inner_count + 1), <<clade1, clade2>>)
         IN  /\ scan' = temps
             /\ min_i' = mi
             /\ min_j' = mj
             /\ inner_count' = inner_count + 1
             /\ clades' = JoinClades(clades, mi, mj, inner)
             /\ dmMatrix' = DmDel(Rebuild(m, m, mi, mj, 1), mi)
             /\ dmNames' = DelAt([dmNames EXCEPT ![mj] = inner.name], mi)
    /\ UNCHANGED <<pc, tree, newick, parsed>>
    /\ UNCHANGED <<records, names, matrix, i, j, scoreCalls, ui>>
    /\ UNCHANGED vizVars

\* after the loop: the last clade becomes a child of the other one
NJFinish ==
    /\ pc = "njloop"
    /\ Len(dmNames) = 2
    /\ LET d == DmGet(dmMatrix, 2, 1)
       IN  tree' =
             IF clades[1].name = InnerName(inner_count)
             THEN Clade(Zero, clades[1].name,
                        Append(clades[1].clades,
                               [clades[2] EXCEPT !.branch_length = d]))
             ELSE Clade(Zero, clades[2].name,
                        Append(clades[2].clades,
                               [clades[1] EXCEPT !.branch_length = d]))
    /\ pc' = "write"
    /\ UNCHANGED <<dmNames, dmMatrix, clades, min_i, min_j, scan, inner_count,
                   newick, parsed>>
    /\ UNCHANGED <<records, names, matrix, i, j, scoreCalls, ui>>
    /\ UNCHANGED vizVars

(***************************************************************************)
(* Phylo.write(tree, output, "newick") and Phylo.read(..., "newick").      *)
(***************************************************************************)
Tok(k) == [k |-> k, s |-> "", v |-> 0]
Label(name) == [k |-> "label", s |-> name, v |-> 0]
Number(v) == [k |-> "number", s |-> "", v |-> v]

\* x * 100000 as a fraction in lowest terms
Scaled(x) ==
    LET g == GCD(100000, x[2])
    IN  <<x[1] * (100000 \div g), x[2] \div g>>

\* Format cutting the decimals off instead of rounding
FormatTruncate(x) == Scaled(x)[1] \div Scaled(x)[2]

\* "%1.5f" % x: the five decimals nearest to x, ties to the even digit
Format(x) ==
    LET num == Scaled(x)[1]
        den == Scaled(x)[2]
        q == num \div den
        r == num - q * den
    IN  IF 2 * r > den THEN q + 1
        ELSE IF 2 * r = den /\ q % 2 = 1 THEN q + 1
        ELSE q

\* float("0.33333")
Float(v) == Rat(v, 100000)

\* clade.branch_length or 0.0
OrZero(x) == IF x = None THEN Zero ELSE x

\* make_info_string: ":" + format_branch_length % (clade.branch_length or 0.0)
InfoString(t) == <<Tok(":"), Number(Format(OrZero(t.branch_length)))>>

\* label = clade.name or ""
LabelString(t) == IF t.name = "" THEN <<>> ELSE <<Label(t.name)>>

\* newickize(clade) of NewickIO.Writer.to_strings
RECURSIVE Newickize(_), NewickizeFrom(_, _)
Newickize(t) ==
    IF t.clades = <<>>
    THEN LabelString(t) \o InfoString(t)
    ELSE <<Tok("(")>> \o NewickizeFrom(t.clades, 1) \o <<Tok(")")>>
             \o LabelString(t) \o InfoString(t)
NewickizeFrom(kids, k) ==
    IF k > Len(kids) THEN <<>>
    ELSE (IF k > 1 THEN <<Tok(",")>> ELSE <<>>) \o Newickize(kids[k])
             \o NewickizeFrom(kids, k + 1)

\* output.getvalue().strip()
PhyloWrite(t) == Newickize(t) \o <<Tok(";")>>

\* NewickIO.Parser: subtree := "(" subtree ("," subtree)* ")" info | info,
\* info := [label] [":" number]
ParseInfo(toks, p, kids) ==
    LET hasName == toks[p].k = "label"
        p2 == IF hasName THEN p + 1 ELSE p
        hasLen == toks[p2].k = ":"
    IN  [node |-> Clade(IF hasLen THEN Float(toks[p2 + 1].v) ELSE None,
                        IF hasName THEN toks[p].s ELSE "",
                        kids),
         pos |-> IF hasLen THEN p2 + 2 ELSE p2]

RECURSIVE ParseClade(_, _), ParseKids(_, _, _)
ParseClade(toks, p) ==
    IF toks[p].k = "("
    THEN LET ks == ParseKids(toks, p + 1, <<>>)
         IN  ParseInfo(toks, ks.pos, ks.kids)
    ELSE ParseInfo(toks, p, <<>>)
ParseKids(toks, p, acc) ==
    LET c == ParseClade(toks, p)
    IN  IF toks[c.pos].k = ","
        THEN ParseKids(toks, c.pos + 1, Append(acc, c.node))
        ELSE [kids |-> Append(acc, c.node), pos |-> c.pos + 1]

PhyloRead(toks) == ParseClade(toks, 1).node

\* lines 253-259: Phylo.write, st.code, download_button
EmitNewick ==
    /\ pc = "write"
    /\ newick' = PhyloWrite(tree)
    /\ ui' = Append(ui, Code(newick'))
    /\ pc' = "visualize"
    /\ UNCHANGED <<records, names, matrix, i, j, scoreCalls>>
    /\ UNCHANGED <<dmNames, dmMatrix, clades, min_i, min_j, scan, inner_count,
                   tree, parsed>>
    /\ UNCHANGED vizVars

\* line 260 and line 139 (or 94): the tree is read back from newick_tree
Visualize ==
    /\ pc = "visualize"
    /\ parsed' = PhyloRead(newick)
    /\ pc' = "done"
    /\ UNCHANGED <<records, names, matrix, i, j, scoreCalls, ui>>
    /\ UNCHANGED <<dmNames, dmMatrix, clades, min_i, min_j, scan, inner_count,
                   tree, newick>>
    /\ UNCHANGED vizVars

Uploads ==
    UNION {[1..m -> [id : Names, seq : SeqPool]] : m \in 0..MaxRecords}

NJIdle ==
    /\ dmNames = <<>>
    /\ dmMatrix = <<>>
    /\ clades = <<>>
    /\ min_i = 0
    /\ min_j = 0
    /\ scan = <<>>
    /\ inner_count = 0
    /\ tree = NoTree
    /\ newick = <<>>
    /\ parsed = NoTree

VizIdle ==
    /\ PYVIS_AVAILABLE = TRUE
    /\ vpc = <<>>
    /\ arg = <<>>
    /\ file = [nodes |-> {}, edges |-> {}]
    /\ display = <<>>

Init ==
    /\ pc = "start"
    /\ records \in Uploads
    /\ names = <<>>
    /\ matrix = <<>>
    /\ i = 0
    /\ j = 0
    /\ scoreCalls = 0
    /\ ui = <<>>
    /\ NJIdle
    /\ VizIdle

Next ==
    \/ CheckRecords
    \/ ScorePair
    \/ ConstructDM

Spec == Init /\ [][Next]_vars

(***************************************************************************)
(* SpecNJ: the run from line 250 on, for every DistanceMatrix over 2 to    *)
(* MaxTaxa names whose entries are distances line 245 can compute.         *)
(***************************************************************************)
TaxonNames == <<"A", "B", "C", "D", "E", "F">>

\* 1 - score / max_len for (score, max_len) = (1, 1), (2, 3), (0, 1)
DistPool == {Distance(1, 1), Distance(2, 3), Distance(0, 1)}

Pairs(m) == {p \in (1..m) \X (1..m) : p[2] < p[1]}

LowerTriangle(m, f) ==
    [r \in 1..m |-> [c \in 1..r |-> IF c = r THEN Zero ELSE f[<<r, c>>]]]

InitNJ ==
    /\ pc = "nj"
    /\ records = <<>>
    /\ i = 0
    /\ j = 0
    /\ scoreCalls = 0
    /\ ui = <<>>
    /\ \E m \in 2..MaxTaxa : \E f \in [Pairs(m) -> DistPool] :
          /\ names = SubSeq(TaxonNames, 1, m)
          /\ matrix = LowerTriangle(m, f)
    /\ dmNames = names
    /\ dmMatrix = matrix
    /\ clades = <<>>
    /\ min_i = 0
    /\ min_j = 0
    /\ scan = <<>>
    /\ inner_count = 0
    /\ tree = NoTree
    /\ newick = <<>>
    /\ parsed = NoTree
    /\ VizIdle

NextNJ ==
    \/ NJStart
    \/ NJMerge
    \/ NJFinish
    \/ EmitNewick
    \/ Visualize

SpecNJ == InitNJ /\ [][NextNJ]_vars

(***************************************************************************)
(* visualize_phylo_tree, lines 136-166, run by two sessions at once.  The  *)
(* callers are line 260 (the tree of an upload) and line 297 (the          *)
(* simulated tree of line 279).                                            *)
(***************************************************************************)
Sessions == {1, 2}

\* f"(({species[0]}:{mutations[0]},{species[1]}:{mutations[1]}):0.2,
\*    ({species[2]}:{mutations[2]},{species[3]}:{mutations[3]}):0.3);"
SimulatedNewick(mutations) ==
    <<Tok("("), Tok("("),
      Label("Human"), Tok(":"), Number(mutations[1] * 100000), Tok(","),
      Label("Chimpanzee"), Tok(":"), Number(mutations[2] * 100000),
      Tok(")"), Tok(":"), Number(20000), Tok(","), Tok("("),
      Label("Gorilla"), Tok(":"), Number(mutations[3] * 100000), Tok(","),
      Label("Orangutan"), Tok(":"), Number(mutations[4] * 100000),
      Tok(")"), Tok(":"), Number(30000), Tok(")"), Tok(";")>>

\* newick strings a session may hold: two simulated trees (mutations are
\* random.sample(range(10, 100), 4)) and the trees nj gives for two uploads
\* of two sequences each
VizArgs ==
    { SimulatedNewick(<<10, 99, 42, 57>>),
      SimulatedNewick(<<57, 42, 99, 10>>),
      PhyloWrite(Clade(None, "Inner",
          <<Clade(<<1, 6>>, "B", <<>>), Clade(<<1, 6>>, "A", <<>>)>>)),
      PhyloWrite(Clade(None, "Inner",
          <<Clade(<<1, 2>>, "D", <<>>), Clade(<<1, 2>>, "C", <<>>)>>)) }

\* clade.name if clade.name else f"Node_{id(clade)}": the clades one
\* session parses are objects of their own, told apart by session and place
NodeName(r, t, place) ==
    IF t.name # "" THEN t.name ELSE "Node_" \o ToString(r) \o place

RECURSIVE GraphNodes(_, _, _), GraphNodesFrom(_, _, _, _)
GraphNodes(r, t, place) ==
    {NodeName(r, t, place)} \cup GraphNodesFrom(r, t, place, 1)
GraphNodesFrom(r, t, place, k) ==
    IF k > Len(t.clades) THEN {}
    ELSE GraphNodes(r, t.clades[k], place \o "." \o ToString(k))
             \cup GraphNodesFrom(r, t, place, k + 1)

RECURSIVE GraphEdges(_, _, _), GraphEdgesFrom(_, _, _, _)
GraphEdges(r, t, place) == GraphEdgesFrom(r, t, place, 1)
GraphEdgesFrom(r, t, place, k) ==
    IF k > Len(t.clades) THEN {}
    ELSE LET below == place \o "." \o ToString(k)
         IN  {<<NodeName(r, t, place), NodeName(r, t.clades[k], below)>>}
                 \cup GraphEdges(r, t.clades[k], below)
                 \cup GraphEdgesFrom(r, t, place, k + 1)

\* lines 139-149 (and 94-103): the nodes and edges drawn for newick_str
Graph(r, newick_str) ==
    LET t == PhyloRead(newick_str)
    IN  [nodes |-> GraphNodes(r, t, ""), edges |-> GraphEdges(r, t, "")]

NoGraph == [nodes |-> {}, edges |-> {}]

\* lines 139-158: the network is built and saved as phylogenetic_tree.html
SaveGraph(r) ==
    /\ PYVIS_AVAILABLE
    /\ vpc[r] = "call"
    /\ file' = Graph(r, arg[r])
    /\ vpc' = [vpc EXCEPT ![r] = "saved"]
    /\ UNCHANGED <<PYVIS_AVAILABLE, arg, display>>
    /\ UNCHANGED <<handlerVars, njVars>>

\* lines 159-161: the file is read back and handed to components.html
ShowHtml(r) ==
    /\ vpc[r] = "saved"
    /\ display' = [display EXCEPT ![r] = [by |-> "pyvis", graph |-> file]]
    /\ vpc' = [vpc EXCEPT ![r] = "done"]
    /\ UNCHANGED <<PYVIS_AVAILABLE, arg, file>>
    /\ UNCHANGED <<handlerVars, njVars>>

\* lines 162-164: an exception inside the try block, then the Plotly figure
PyvisFails(r) ==
    /\ PYVIS_AVAILABLE
    /\ vpc[r] = "call"
    /\ display' = [display EXCEPT
                     ![r] = [by |-> "plotly", graph |-> Graph(r, arg[r])]]
    /\ vpc' = [vpc EXCEPT ![r] = "done"]
    /\ UNCHANGED <<PYVIS_AVAILABLE, arg, file>>
    /\ UNCHANGED <<handlerVars, njVars>>

\* lines 165-166: without pyvis, visualize_with_plotly
ShowPlotly(r) ==
    /\ ~PYVIS_AVAILABLE
    /\ vpc[r] = "call"
    /\ display' = [display EXCEPT
                     ![r] = [by |-> "plotly", graph |-> Graph(r, arg[r])]]
    /\ vpc' = [vpc EXCEPT ![r] = "done"]
    /\ UNCHANGED <<PYVIS_AVAILABLE, arg, file>>
    /\ UNCHANGED <<handlerVars, njVars>>

InitViz ==
    /\ pc = "sessions"
    /\ records = <<>>
    /\ names = <<>>
    /\ matrix = <<>>
    /\ i = 0
    /\ j = 0
    /\ scoreCalls = 0
    /\ ui = <<>>
    /\ NJIdle
    /\ PYVIS_AVAILABLE \in BOOLEAN
    /\ vpc = [r \in Sessions |-> "call"]
    /\ arg \in [Sessions -> VizArgs]
    /\ file = NoGraph
    /\ display = [r \in Sessions |-> [by |-> "", graph |-> NoGraph]]

NextViz ==
    \E r \in Sessions :
        \/ SaveGraph(r)
        \/ ShowHtml(r)
        \/ PyvisFails(r)
        \/ ShowPlotly(r)

SpecViz == InitViz /\ [][NextViz]_vars

(***************************************************************************)
(* Properties.                                                             *)
(***************************************************************************)
AllNonEmpty == \A k \in 1..n : records[k].seq # <<>>

ValidUpload == n >= 2 /\ AllNonEmpty /\ ~HasDuplicates(RecordIds)

\* C1: when the loop of lines 241-246 is over and matrix is handed to
\* DistanceMatrix (line 248), matrix[a][b] = matrix[b][a] and
\* matrix[a][a] = 0 for all a, b.
C1_MatrixSymmetricZeroDiagonal ==
    pc = "dm" =>
        \A a, b \in 1..n : matrix[a][b] = matrix[b][a] /\ matrix[a][a] = Zero

C1_Witness ==
    /\ pc = "dm"
    /\ n = 3
    /\ ValidUpload
    /\ matrix[2][1] # Zero
    /\ matrix[3][1] # matrix[3][2]

\* C2: for a distance matrix over n >= 3 distinct taxa, the tree nj returns
\* has n leaves, every input name on exactly one of them, and n - 2
\* internal nodes.
C2_LeavesAndInternalNodes ==
    (tree # NoTree /\ Len(names) >= 3) =>
        /\ Len(LeafNames(tree)) = Len(names)
        /\ \A a \in 1..Len(names) :
              Cardinality({k \in 1..Len(LeafNames(tree)) :
                              LeafNames(tree)[k] = names[a]}) = 1
        /\ InternalCount(tree) = Len(names) - 2

C2_Witness ==
    /\ tree # NoTree
    /\ Len(names) = 4
    /\ Len(tree.clades) = 3
    /\ InternalCount(tree) = 2

\* C3: with fewer than 2 records the run ends in the warning of line 230:
\* no score was computed, no tree was built, no Newick string was shown.
C3_TooFewRecords ==
    (n < 2 /\ pc # "start") =>
        /\ pc = "done"
        /\ ui = <<Warning("at least 2 sequences")>>
        /\ scoreCalls = 0
        /\ tree = NoTree
        /\ newick = <<>>

C3_Witness == n = 1 /\ pc = "done" /\ Failed /\ scoreCalls = 0

C5_AllOrNothing ==
    /\ ~(Emitted /\ Failed)
    /\ pc = "done" => (Emitted \/ Failed)
    /\ \A k \in 1..Len(ui) :
          ui[k].kind = "code" =>
              /\ tree # NoTree
              /\ ui[k].code = PhyloWrite(tree)
              /\ {LeafNames(tree)[a] : a \in 1..Len(LeafNames(tree))}
                     = {names[a] : a \in 1..Len(names)}

C5_Witness == pc = "done" /\ ValidUpload /\ Failed /\ ~Emitted

C7_FirstMinimumInScanOrder ==
    scan # <<>> =>
        \E k \in 1..Len(scan) :
            /\ {scan[k].i, scan[k].j} = {min_i, min_j}
            /\ \A l \in 1..Len(scan) : ~RLess(scan[l].temp, scan[k].temp)
            /\ \A l \in 1..(k - 1) : scan[l].temp # scan[k].temp

C7_Witness ==
    /\ Len(scan) = 6
    /\ \E k \in 2..Len(scan) :
          /\ {scan[k].i, scan[k].j} = {min_i, min_j}
          /\ RLess(scan[k].temp, scan[1].temp)
          /\ \E l \in (k + 1)..Len(scan) : scan[l].temp = scan[k].temp

\* C8: an upload of exactly 2 valid records ends with a tree of two leaves,
\* the two names, joined by one edge as long as their distance, without any
\* merge step.
C8_TwoTaxaSingleEdge ==
    (pc = "done" /\ n = 2 /\ ValidUpload) =>
        /\ Emitted
        /\ tree # NoTree
        /\ {LeafNames(tree)[a] : a \in 1..Len(LeafNames(tree))}
               = {records[1].id, records[2].id}
        /\ EdgeLengths(tree) = <<matrix[2][1]>>
        /\ inner_count = 0

RECURSIVE Shape(_)
Shape(t) ==
    [name |-> t.name,
     clades |-> [k \in 1..Len(t.clades) |-> Shape(t.clades[k])]]

\* every branch length of t, the root's first, None read as 0.0
AllLengths(t) == <<OrZero(t.branch_length)>> \o EdgeLengths(t)

Close(x, y) ==
    LET d == RSub(x, y)
    IN  ~RLess(<<1, 200000>>, <<Abs(d[1]), d[2]>>)

C10_ShowsOwnTree ==
    \A r \in Sessions :
        vpc[r] = "done" => display[r].graph = Graph(r, arg[r])

====
